---------------------------- MODULE Spec2Model ----------------------------
(***************************************************************************)
(* A model of switch-vlan-doc: the SNMP VLAN/LACP port report.             *)
(*                                                                         *)
(*   src/src/main.rs        argument parsing, table fetches, aggregation,  *)
(*                          override application, range compression        *)
(*   src/src/snmp_utils.rs  table walk, typed table conversions, bitmask   *)
(*                          decoding                                       *)
(*                                                                         *)
(* Representation.  A Rust String is a sequence of one-character strings   *)
(* (<<"T","r","k">>), so that formatting, splitting and parsing are        *)
(* computed and not assumed.  Option<T> is a set with at most one element  *)
(* ({} is None, {x} is Some(x)); HashSet<u32> is a set; HashMap<K,V> is a  *)
(* function with a finite domain; Vec<T> is a sequence.                    *)
(***************************************************************************)
EXTENDS Integers, Sequences, FiniteSets, TLC

VARIABLES
    \* ---- main(): control and arguments
    pc,                   \* position of main() in its body
    override_lacp,        \* args.override_lacp: Vec<String>
    ignore_alias,         \* args.ignore_alias
    lacp_overrides,       \* Vec<LacpOverride> parsed so far
    warnings,             \* the override strings warned about on stderr
    \* ---- main(): the table snapshots
    fetches,              \* number of table fetches issued so far
    error,                \* Option: the error main() returned with
    port_indices, port_names, port_types, port_aliases, vlan_names,
    vlan_egress_ports, vlan_untagged_ports, port_vlans,
    lag_selected_agg_ids, lag_agg_names,
    \* ---- main(): aggregation
    lag_vlan_info,        \* HashMap<u32, (HashSet<u32>, HashSet<u32>)>
    pending,              \* keys of port_indices not yet visited by into_values()
    port_configs,         \* Vec<PortConfig>
    next_override,        \* index of the next LacpOverride to apply
    \* ---- main(): range compression
    cursor,               \* index of the next PortConfig the grouping loop reads
    current_config,       \* Option<PortConfig>
    current_start, current_end,
    port_ranges,          \* Vec<PortRange>
    stdout,               \* the rows printed on standard output
    \* ---- decode_port_list / port_in_list, applied on their own
    dec_ports,            \* the byte sequence given
    dec_out,              \* Option<String>: the string decode_port_list returned
    dec_queries,          \* the (port, answer) pairs port_in_list returned
    \* ---- get_table_values, applied on its own
    mib,                  \* the agent's entries [oid, val] in OID order
    current_oid,          \* the OID of the next getnext request
    walk_results,         \* results: HashMap<u32, SnmpValue>
    walk_out              \* Option<Result>: what get_table_values returned

argVars   == <<override_lacp, ignore_alias>>
parseVars == <<lacp_overrides, warnings>>
tableVars == <<port_indices, port_names, port_types, port_aliases, vlan_names,
               vlan_egress_ports, vlan_untagged_ports, port_vlans,
               lag_selected_agg_ids, lag_agg_names>>
fetchVars == <<fetches, error>>
aggVars   == <<lag_vlan_info, pending, port_configs, next_override>>
compVars  == <<cursor, current_config, current_start, current_end, port_ranges>>
walkVars  == <<mib, current_oid, walk_results, walk_out>>
decVars   == <<dec_ports, dec_out, dec_queries, walkVars>>
vars      == <<pc, argVars, parseVars, tableVars, fetchVars, aggVars, compVars,
               stdout, decVars>>

(***************************************************************************)
(* Bounds of the model.                                                    *)
(***************************************************************************)
MaxBytes     == 2      \* longest bitmask given to the decoder on its own
MaxStrLen    == 3      \* longest override string enumerated exhaustively
MaxOverrides == 2      \* most --override-lacp arguments in one run
MaxRun       == 4      \* longest sorted PortConfig list given to the compressor

\* u32::MAX = 4294967295, digit by digit (the number itself is beyond the
\* integers the model checker computes with)
U32MaxDigits == <<4, 2, 9, 4, 9, 6, 7, 2, 9, 5>>

(***************************************************************************)
(* Generic helpers.                                                        *)
(***************************************************************************)
None == {}

Some(x) == {x}

Unwrap(o) == CHOOSE x \in o : TRUE

Range(f) == {f[k] : k \in DOMAIN f}

EmptyMap == [k \in {} |-> 0]

RECURSIVE SeqsUpTo(_, _)
SeqsUpTo(S, n) ==
    IF n = 0 THEN {<<>>}
    ELSE LET shorter == SeqsUpTo(S, n - 1)
         IN  shorter \cup {Append(s, x) : s \in {t \in shorter : Len(t) = n - 1}, x \in S}

RECURSIVE Pow2(_)
Pow2(k) == IF k = 0 THEN 1 ELSE 2 * Pow2(k - 1)

\* a & b on unsigned integers
RECURSIVE BitAnd(_, _)
BitAnd(a, b) ==
    IF a = 0 \/ b = 0 THEN 0
    ELSE (a % 2) * (b % 2) + 2 * BitAnd(a \div 2, b \div 2)

(***************************************************************************)
(* Strings: to_string, parse::<u32>, split, join.                          *)
(***************************************************************************)
Digits == <<"0", "1", "2", "3", "4", "5", "6", "7", "8", "9">>

IsDigit(c) == \E d \in 1..10 : Digits[d] = c

DigitValue(c) == (CHOOSE d \in 1..10 : Digits[d] = c) - 1

\* u32/usize Display: decimal, no sign, no leading zeros
RECURSIVE to_string(_)
to_string(n) ==
    IF n < 10 THEN <<Digits[n + 1]>>
    ELSE to_string(n \div 10) \o <<Digits[(n % 10) + 1]>>

RECURSIVE StripZeros(_)
StripZeros(ds) ==
    IF ds # <<>> /\ Head(ds) = 0 THEN StripZeros(Tail(ds)) ELSE ds

\* a > b for two digit sequences of the same length
RECURSIVE DigitsGreater(_, _)
DigitsGreater(a, b) ==
    IF a = <<>> THEN FALSE
    ELSE IF Head(a) # Head(b) THEN Head(a) > Head(b)
    ELSE DigitsGreater(Tail(a), Tail(b))

\* checked_mul/checked_add of from_str_radix: the value leaves u32
ExceedsU32(ds) ==
    LET sig == StripZeros(ds)
    IN  \/ Len(sig) > Len(U32MaxDigits)
        \/ Len(sig) = Len(U32MaxDigits) /\ DigitsGreater(sig, U32MaxDigits)

RECURSIVE DigitsValue(_, _)
DigitsValue(ds, acc) ==
    IF ds = <<>> THEN acc ELSE DigitsValue(Tail(ds), acc * 10 + Head(ds))

\* the digits of s read left to right with the overflow check of u32
ParseDigits(s) ==
    IF \E i \in 1..Len(s) : ~IsDigit(s[i]) THEN None
    ELSE LET ds == [i \in 1..Len(s) |-> DigitValue(s[i])]
         IN  IF ExceedsU32(ds) THEN None ELSE Some(DigitsValue(ds, 0))

\* str::parse::<u32>(): Err on the empty string, on a lone sign, on any
\* character that is not a decimal digit (a leading '+' is accepted, a
\* leading '-' is not) and on a value above u32::MAX.  None stands for Err.
parse_u32(s) ==
    IF s = <<>> THEN None
    ELSE IF Head(s) = "+"
         THEN IF Len(s) = 1 THEN None ELSE ParseDigits(Tail(s))
         ELSE ParseDigits(s)

MatchAt(s, sep, i) ==
    /\ i + Len(sep) - 1 <= Len(s)
    /\ \A j \in 1..Len(sep) : s[i + j - 1] = sep[j]

\* str::split(pattern): the pieces between the leftmost non-overlapping
\* matches; a string without a match (the empty one too) is one piece
RECURSIVE split(_, _)
split(s, sep) ==
    LET hits == {i \in 1..Len(s) : MatchAt(s, sep, i)}
    IN  IF hits = {} THEN <<s>>
        ELSE LET i == CHOOSE h \in hits : \A g \in hits : h <= g
             IN  <<SubSeq(s, 1, i - 1)>> \o split(SubSeq(s, i + Len(sep), Len(s)), sep)

RECURSIVE join(_, _)
join(list, sep) ==
    IF list = <<>> THEN <<>>
    ELSE IF Len(list) = 1 THEN list[1]
    ELSE list[1] \o sep \o join(Tail(list), sep)

CommaSpace == <<",", " ">>

(***************************************************************************)
(* snmp_utils.rs: decode_port_list; main.rs: port_in_list.                 *)
(***************************************************************************)
\* DecodeByte with the mask 1 << bit_index: least significant bit first
RECURSIVE DecodeByteLsbFirst(_, _, _)
DecodeByteLsbFirst(byte_index, byte, bit_index) ==
    IF bit_index = 8 THEN <<>>
    ELSE (IF BitAnd(byte, Pow2(bit_index)) # 0
          THEN <<to_string(byte_index * 8 + bit_index + 1)>>
          ELSE <<>>)
         \o DecodeByteLsbFirst(byte_index, byte, bit_index + 1)

\* the inner loop: the port numbers of one byte, bit_index 0..7 in order
RECURSIVE DecodeByte(_, _, _)
DecodeByte(byte_index, byte, bit_index) ==
    IF bit_index = 8 THEN <<>>
    ELSE (IF BitAnd(byte, Pow2(7 - bit_index)) # 0
          THEN <<to_string(byte_index * 8 + bit_index + 1)>>
          ELSE <<>>)
         \o DecodeByte(byte_index, byte, bit_index + 1)

\* the outer loop: port_list after the bytes from byte_index (0-based) on
RECURSIVE DecodeFrom(_, _)
DecodeFrom(ports, byte_index) ==
    IF byte_index >= Len(ports) THEN <<>>
    ELSE DecodeByte(byte_index, ports[byte_index + 1], 0)
         \o DecodeFrom(ports, byte_index + 1)

decode_port_list(ports) == join(DecodeFrom(ports, 0), CommaSpace)

port_in_list(port_num, ports_data) ==
    LET pieces == split(decode_port_list(ports_data), CommaSpace)
    IN  \E i \in 1..Len(pieces) :
            LET p == parse_u32(pieces[i])
            IN  p # None /\ Unwrap(p) = port_num

(***************************************************************************)
(* Initial values.  main() starts with nothing parsed, fetched or built;   *)
(* the decoder applied on its own starts with nothing decoded.             *)
(***************************************************************************)
StartBeforeConfigs ==
    /\ lacp_overrides = <<>> /\ warnings = <<>>
    /\ fetches = 0 /\ error = None
    /\ port_indices = EmptyMap /\ port_names = EmptyMap /\ port_types = EmptyMap
    /\ port_aliases = EmptyMap /\ vlan_names = EmptyMap
    /\ vlan_egress_ports = EmptyMap /\ vlan_untagged_ports = EmptyMap
    /\ port_vlans = EmptyMap /\ lag_selected_agg_ids = EmptyMap
    /\ lag_agg_names = EmptyMap
    /\ lag_vlan_info = EmptyMap /\ pending = {}
    /\ next_override = 1
    /\ cursor = 1 /\ current_config = None /\ current_start = 0
    /\ current_end = 0 /\ port_ranges = <<>>
    /\ stdout = <<>>

PipelineStart == StartBeforeConfigs /\ port_configs = <<>>

WalkerStart ==
    mib = <<>> /\ current_oid = <<>> /\ walk_results = EmptyMap /\ walk_out = None

DecoderStart ==
    dec_ports = <<>> /\ dec_out = None /\ dec_queries = None /\ WalkerStart

(***************************************************************************)
(* The bitmask decoder applied on its own to bounded byte sequences.       *)
(***************************************************************************)
Byte == 0..255

\* bytes the longer sequences are built from: no bit, the first bit, the
\* last bit, all bits, and two mixed patterns
ByteMenu == {0, 1, 128, 255, 66, 24}

DecodeInputs == {<<b>> : b \in Byte} \cup SeqsUpTo(ByteMenu, MaxBytes)

InitDecode ==
    /\ pc = "decode"
    /\ override_lacp = <<>> /\ ignore_alias = FALSE
    /\ PipelineStart
    /\ dec_ports \in DecodeInputs
    /\ dec_out = None /\ dec_queries = None
    /\ WalkerStart

\* let s = decode_port_list(ports)
Decode ==
    /\ pc = "decode"
    /\ dec_out = None
    /\ dec_out' = Some(decode_port_list(dec_ports))
    /\ UNCHANGED <<pc, argVars, parseVars, tableVars, fetchVars, aggVars,
                   compVars, stdout, dec_ports, dec_queries, walkVars>>

\* let b = port_in_list(port_num, ports)
Query ==
    /\ pc = "decode"
    /\ \E port_num \in 0..(8 * Len(dec_ports) + 1) :
           dec_queries' = Some(<<port_num, port_in_list(port_num, dec_ports)>>)
    /\ UNCHANGED <<pc, argVars, parseVars, tableVars, fetchVars, aggVars,
                   compVars, stdout, dec_ports, dec_out, walkVars>>

NextDecode == Decode \/ Query

SpecDecode == InitDecode /\ [][NextDecode]_vars

\* bit k of byte b, k = 0 being the most significant of the eight
BitSet(b, k) == (b \div Pow2(7 - k)) % 2 = 1

\* the ports a bitmask denotes: port i*8+k+1 for bit k of byte i (0-based)
PortSet(bytes) ==
    {p \in 1..(8 * Len(bytes)) : BitSet(bytes[((p - 1) \div 8) + 1], (p - 1) % 8)}

\* the numbers a decoded string lists, None when a piece is not a number
ListedPorts(str) ==
    LET pieces == split(str, CommaSpace)
    IN  IF \E i \in 1..Len(pieces) : parse_u32(pieces[i]) = None THEN None
        ELSE Some([i \in 1..Len(pieces) |-> Unwrap(parse_u32(pieces[i]))])

AllOnes == <<"1", ",", " ", "2", ",", " ", "3", ",", " ", "4", ",", " ",
             "5", ",", " ", "6", ",", " ", "7", ",", " ", "8">>

\* C9: decode_port_list lists exactly the ports { i*8+k+1 : bit k of byte i
\* is set, k = 0 the most significant bit } in ascending order, for every
\* byte sequence (the empty one gives the empty string, a single set bit n
\* gives "n", 0xFF gives "1, 2, 3, 4, 5, 6, 7, 8"), and port_in_list(p,
\* bytes) is true exactly when p is in that set.
C9_DecodeIsPortSet ==
    /\ dec_out # None =>
          LET str == Unwrap(dec_out)
              want == PortSet(dec_ports)
          IN  /\ want = {} => str = <<>>
              /\ want # {} =>
                    /\ ListedPorts(str) # None
                    /\ LET l == Unwrap(ListedPorts(str))
                       IN  /\ {l[i] : i \in 1..Len(l)} = want
                           /\ \A i \in 1..(Len(l) - 1) : l[i] < l[i + 1]
              /\ Cardinality(want) = 1 => str = to_string(CHOOSE n \in want : TRUE)
              /\ dec_ports = <<255>> => str = AllOnes
    /\ dec_queries # None =>
          Unwrap(dec_queries)[2] = (Unwrap(dec_queries)[1] \in PortSet(dec_ports))

\* a two-byte bitmask decoded, and a port of its second byte found in it
C9_Witness ==
    /\ Len(dec_ports) = 2
    /\ dec_out # None /\ Unwrap(dec_out) # <<>>
    /\ dec_queries # None
    /\ Unwrap(dec_queries)[1] > 8 /\ Unwrap(dec_queries)[2] = TRUE

(***************************************************************************)
(* main.rs: parse_lacp_override and the loop of main() that parses         *)
(* args.override_lacp.                                                     *)
(***************************************************************************)
Colon == <<":">>

Comma == <<",">>

\* parse_lacp_override with filter_map in place of collect::<Result<..>>: a
\* target that is not a number is dropped instead of failing the override
parse_lacp_override_lenient(override_str) ==
    LET parts == split(override_str, Colon)
    IN  IF Len(parts) # 2 THEN None
        ELSE IF parse_u32(parts[1]) = None THEN None
        ELSE LET fields == split(parts[2], Comma)
                 good   == SelectSeq(fields, LAMBDA f : parse_u32(f) # None)
             IN  Some([source_interface |-> Unwrap(parse_u32(parts[1])),
                       target_ports |-> [i \in 1..Len(good) |->
                                            Unwrap(parse_u32(good[i]))]])

\* Result<LacpOverride, String>: None stands for Err(message)
parse_lacp_override(override_str) ==
    LET parts == split(override_str, Colon)
    IN  IF Len(parts) # 2 THEN None
        ELSE IF parse_u32(parts[1]) = None THEN None
        ELSE LET fields == split(parts[2], Comma)
             IN  IF \E i \in 1..Len(fields) : parse_u32(fields[i]) = None
                 THEN None
                 ELSE Some([source_interface |-> Unwrap(parse_u32(parts[1])),
                            target_ports |-> [i \in 1..Len(fields) |->
                                                 Unwrap(parse_u32(fields[i]))]])

\* how many of args.override_lacp the loop has gone through
Parsed == Len(lacp_overrides) + Len(warnings)

\* one iteration of `for override_str in &args.override_lacp`
ParseOverride ==
    /\ pc = "parse"
    /\ Parsed < Len(override_lacp)
    /\ LET override_str == override_lacp[Parsed + 1]
           r == parse_lacp_override(override_str)
       IN  IF r # None
           THEN /\ lacp_overrides' = Append(lacp_overrides, Unwrap(r))
                /\ UNCHANGED warnings
           ELSE /\ warnings' = Append(warnings, override_str)
                /\ UNCHANGED lacp_overrides
    /\ UNCHANGED <<pc, argVars, tableVars, fetchVars, aggVars, compVars,
                   stdout, decVars>>

\* the loop is over: main() goes on to create the session
ParseDone ==
    /\ pc = "parse"
    /\ Parsed = Len(override_lacp)
    /\ pc' = "session"
    /\ UNCHANGED <<argVars, parseVars, tableVars, fetchVars, aggVars, compVars,
                   stdout, decVars>>

\* the characters override strings are enumerated over
OverrideAlphabet == {"1", "+", ":", ",", "x"}

\* longer override strings: several targets, three fields, a bad or empty
\* target after a good one, a signed target
LongOverrideStrings ==
    { <<"1", ":", "1", ",", "1", "1">>,
      <<"1", "1", ":", "1", ",", "+", "1">>,
      <<"1", ":", "1", ":", "1">>,
      <<"1", ":", "1", ",", "x">>,
      <<"1", ":", "1", ",">>,
      <<"1", ":", ",", "1">> }

OverrideStrings == SeqsUpTo(OverrideAlphabet, MaxStrLen) \cup LongOverrideStrings

InitParse ==
    /\ pc = "parse"
    /\ override_lacp \in SeqsUpTo(OverrideStrings, MaxOverrides)
    /\ ignore_alias = FALSE
    /\ PipelineStart
    /\ DecoderStart

NextParse == ParseOverride \/ ParseDone

SpecParse == InitParse /\ [][NextParse]_vars

\* ---- what a well-formed override is, stated on the characters
Positions(s, c) == {i \in 1..Len(s) : s[i] = c}

\* s cut at the positions of character c
RECURSIVE CutAt(_, _, _)
CutAt(s, c, from) ==
    LET later == {i \in Positions(s, c) : i >= from}
    IN  IF later = {} THEN <<SubSeq(s, from, Len(s))>>
        ELSE LET i == CHOOSE h \in later : \A g \in later : h <= g
             IN  <<SubSeq(s, from, i - 1)>> \o CutAt(s, c, i + 1)

\* an unsigned decimal number: digits, after an optional '+'
IsNumber(f) ==
    LET body == IF f # <<>> /\ f[1] = "+" THEN Tail(f) ELSE f
    IN  /\ body # <<>>
        /\ Len(body) < Len(U32MaxDigits)
        /\ \A i \in 1..Len(body) : body[i] \in {Digits[d] : d \in 1..10}

RECURSIVE Pow10(_)
Pow10(k) == IF k = 0 THEN 1 ELSE 10 * Pow10(k - 1)

RECURSIVE SumTo(_, _)
SumTo(f, n) == IF n = 0 THEN 0 ELSE f[n] + SumTo(f, n - 1)

NumberValue(f) ==
    LET body == IF f[1] = "+" THEN Tail(f) ELSE f
        n    == Len(body)
    IN  SumTo([i \in 1..n |-> DigitValue(body[i]) * Pow10(n - i)], n)

WellFormed(s) ==
    /\ Cardinality(Positions(s, ":")) = 1
    /\ LET c == CHOOSE i \in Positions(s, ":") : TRUE
           targets == CutAt(SubSeq(s, c + 1, Len(s)), ",", 1)
       IN  /\ IsNumber(SubSeq(s, 1, c - 1))
           /\ \A i \in 1..Len(targets) : IsNumber(targets[i])

Meaning(s) ==
    LET c == CHOOSE i \in Positions(s, ":") : TRUE
        targets == CutAt(SubSeq(s, c + 1, Len(s)), ",", 1)
    IN  [source_interface |-> NumberValue(SubSeq(s, 1, c - 1)),
         target_ports |-> [i \in 1..Len(targets) |-> NumberValue(targets[i])]]

\* C7: every override string gone through so far that is not well-formed
\* (not exactly two ':'-separated fields, a source or a target that is not
\* an unsigned number, an empty target field) is on the warning list and
\* contributes nothing, every well-formed one is in lacp_overrides with its
\* meaning, both in their original relative order; and the run goes on to
\* the session only once every string was gone through.
C7_OverridesParsedPerItem ==
    LET done == SubSeq(override_lacp, 1, Parsed)
        good == SelectSeq(done, WellFormed)
        bad  == SelectSeq(done, LAMBDA str : ~WellFormed(str))
    IN  /\ Parsed <= Len(override_lacp)
        /\ lacp_overrides = [i \in 1..Len(good) |-> Meaning(good[i])]
        /\ warnings = bad
        /\ pc \in {"parse", "session"}
        /\ pc = "session" => Parsed = Len(override_lacp)

\* a malformed override (an empty target field) was skipped and the
\* well-formed override after it was applied
C7_Witness ==
    /\ pc = "session"
    /\ Len(override_lacp) = 2
    /\ override_lacp[1] = <<"1", ":">>
    /\ warnings = <<override_lacp[1]>>
    /\ lacp_overrides = <<[source_interface |-> 1, target_ports |-> <<1, 11>>]>>

(***************************************************************************)
(* snmp_utils.rs: the table walk and the typed tables.                     *)
(*                                                                         *)
(* The agent's answer to the walk of one table is the sequence of the rows *)
(* it holds under the root, [id |-> last component of the row's OID,       *)
(* val |-> the value], or a transport failure (a timeout, an SNMP error).  *)
(* A value is [kind, bytes, n]: kind "OctetString" carries bytes, kinds    *)
(* "Integer" and "Unsigned32" carry n, any other kind carries neither.     *)
(***************************************************************************)
OctetString(bytes) == [kind |-> "OctetString", bytes |-> bytes, n |-> 0]

Integer(n) == [kind |-> "Integer", bytes |-> <<>>, n |-> n]

Counter(n) == [kind |-> "Counter32", bytes |-> <<>>, n |-> n]

Row(id, val) == [id |-> id, val |-> val]

Timeout == [timeout |-> TRUE, rows |-> <<>>]

Reply(rows) == [timeout |-> FALSE, rows |-> rows]

\* SnmpValue
Bytes(v) == [kind |-> "Bytes", bytes |-> v, n |-> 0]

IntegerValue(n) == [kind |-> "Integer", bytes |-> <<>>, n |-> n]

Ok(v) == [ok |-> TRUE, value |-> v]

Err(msg) == [ok |-> FALSE, value |-> msg]

\* HashMap::insert
Insert(map, k, v) == [x \in DOMAIN map \cup {k} |-> IF x = k THEN v ELSE map[x]]

\* extract_last_id: the last component `as u16`
extract_last_id(id) == id % 65536

\* the loop of get_table_values over the rows under the root: a row of a
\* kind other than OctetString, Integer, Unsigned32 is passed over
RECURSIVE WalkRows(_, _)
WalkRows(rows, results) ==
    IF rows = <<>> THEN results
    ELSE LET r == Head(rows)
         IN  IF r.val.kind = "OctetString"
             THEN WalkRows(Tail(rows),
                           Insert(results, extract_last_id(r.id), Bytes(r.val.bytes)))
             ELSE IF r.val.kind \in {"Integer", "Unsigned32"}
             THEN WalkRows(Tail(rows),
                           Insert(results, extract_last_id(r.id), IntegerValue(r.val.n)))
             ELSE WalkRows(Tail(rows), results)

get_table_values(reply) ==
    IF reply.timeout THEN Err("Failed to get next SNMP value")
    ELSE Ok(WalkRows(reply.rows, EmptyMap))

\* u32::from_be_bytes of the first four bytes
FromBeBytes(v) == ((v[1] * 256 + v[2]) * 256 + v[3]) * 256 + v[4]

\* u32::to_be_bytes
ToBeBytes(n) ==
    <<(n \div 16777216) % 256, (n \div 65536) % 256, (n \div 256) % 256, n % 256>>

get_u32_table(reply) ==
    LET t == get_table_values(reply)
    IN  IF ~t.ok THEN t
        ELSE Ok([k \in DOMAIN t.value |->
                    IF t.value[k].kind = "Integer" THEN t.value[k].n
                    ELSE IF Len(t.value[k].bytes) >= 4
                         THEN FromBeBytes(t.value[k].bytes)
                         ELSE 0])

\* the printable ASCII characters, from code 32 (space) to code 126 (~);
\* the quote, the backslash and the backtick are spelled out
Ascii ==
    <<" ", "!", "<quote>", "#", "$", "%", "&", "'", "(", ")", "*", "+", ",", "-", ".", "/",
      "0", "1", "2", "3", "4", "5", "6", "7", "8", "9", ":", ";", "<", "=", ">", "?",
      "@", "A", "B", "C", "D", "E", "F", "G", "H", "I", "J", "K", "L", "M", "N", "O",
      "P", "Q", "R", "S", "T", "U", "V", "W", "X", "Y", "Z", "[", "<backslash>", "]", "^", "_",
      "<backtick>", "a", "b", "c", "d", "e", "f", "g", "h", "i", "j", "k", "l", "m", "n", "o",
      "p", "q", "r", "s", "t", "u", "v", "w", "x", "y", "z", "{", "|", "}", "~">>

\* String::from_utf8_lossy on single-byte input: an ASCII byte is its
\* character, a byte that is not valid UTF-8 on its own is U+FFFD
from_utf8_lossy(v) ==
    [i \in 1..Len(v) |->
        IF v[i] \in 32..126 THEN Ascii[v[i] - 31]
        ELSE IF v[i] < 128 THEN "<control>"
        ELSE "<U+FFFD>"]

get_string_table(reply) ==
    LET t == get_table_values(reply)
    IN  IF ~t.ok THEN t
        ELSE IF \E k \in DOMAIN t.value : t.value[k].kind = "Integer"
        THEN Err("Expected string (OctetString) value but got integer")
        ELSE Ok([k \in DOMAIN t.value |-> from_utf8_lossy(t.value[k].bytes)])

get_raw_table(reply) ==
    LET t == get_table_values(reply)
    IN  IF ~t.ok THEN t
        ELSE Ok([k \in DOMAIN t.value |->
                    IF t.value[k].kind = "Bytes" THEN t.value[k].bytes
                    ELSE ToBeBytes(t.value[k].n)])

(***************************************************************************)
(* What the agent may answer to each of the ten walks.  Ports are 1..4,    *)
(* interfaces 5..7 are aggregates, VLANs are 10 and 20; a bitmask is one   *)
(* byte (ports 1..8).  Text is given as its ASCII bytes.                   *)
(***************************************************************************)
\* ifIndex: ports 1,2,3; ports 1,2,4 (no port 3); port 2 under two indices
IfIndexReplies ==
    { Reply(<<Row(1, Integer(1)), Row(2, Integer(2)), Row(3, Integer(3))>>),
      Reply(<<Row(1, Integer(1)), Row(2, Integer(2)), Row(4, Integer(4))>>),
      Reply(<<Row(1, Integer(1)), Row(2, Integer(2)), Row(3, Integer(2))>>),
      Timeout }

\* ifName: "1".."4" for the ports and "Trk1" for interface 5; or an integer
IfNameReplies ==
    { Reply(<<Row(1, OctetString(<<49>>)), Row(2, OctetString(<<50>>)),
              Row(3, OctetString(<<51>>)), Row(4, OctetString(<<52>>)),
              Row(5, OctetString(<<84, 114, 107, 49>>))>>),
      Reply(<<Row(1, Integer(1))>>),
      Timeout }

\* ifType: 6 ethernetCsmacd, 117 gigabitEthernet, 24 softwareLoopback
IfTypeReplies ==
    { Reply(<<Row(1, Integer(6)), Row(2, Integer(6)), Row(3, Integer(6)),
              Row(4, Integer(117))>>),
      Reply(<<Row(1, Integer(6)), Row(2, Integer(24)), Row(4, Integer(6))>>),
      Timeout }

\* ifAlias: none; or "up" for port 1, "" for port 2, nothing for ports 3
\* and 4 and "ag" for interface 5; or an integer
IfAliasReplies ==
    { Reply(<<>>),
      Reply(<<Row(1, OctetString(<<117, 112>>)), Row(2, OctetString(<<>>)),
              Row(5, OctetString(<<97, 103>>))>>),
      Reply(<<Row(1, Integer(7))>>),
      Timeout }

\* dot1qVlanStaticName: "x" for VLAN 10
VlanNameReplies ==
    { Reply(<<Row(10, OctetString(<<120>>))>>),
      Reply(<<Row(10, Integer(10))>>),
      Timeout }

\* dot1qVlanStaticEgressPorts: VLAN 10 = {1,2,3,4}, VLAN 20 = {5};
\* or VLAN 10 = {1,2}, VLAN 20 = {3,4,6}
EgressReplies ==
    { Reply(<<Row(10, OctetString(<<240>>)), Row(20, OctetString(<<8>>))>>),
      Reply(<<Row(10, OctetString(<<192>>)), Row(20, OctetString(<<52>>))>>),
      Timeout }

\* dot1qVlanStaticUntaggedPorts: VLAN 10 = {1,2,3,4};
\* or VLAN 10 = {1,5}, VLAN 20 = {2}
UntaggedReplies ==
    { Reply(<<Row(10, OctetString(<<240>>))>>),
      Reply(<<Row(10, OctetString(<<136>>)), Row(20, OctetString(<<64>>))>>),
      Timeout }

\* dot1qPvid: 10 for every port; or 10, 20 and a Counter32 row
PvidReplies ==
    { Reply(<<Row(1, Integer(10)), Row(2, Integer(10)), Row(3, Integer(10)),
              Row(4, Integer(10))>>),
      Reply(<<Row(1, Integer(10)), Row(2, Integer(20)), Row(3, Counter(30))>>),
      Timeout }

\* dot3adAggPortSelectedAggID: no aggregation; or ports 1,2 select 5,
\* port 3 selects none and port 4 selects 6
LagSelectedReplies ==
    { Reply(<<>>),
      Reply(<<Row(1, Integer(5)), Row(2, Integer(5)), Row(3, Integer(0)),
              Row(4, Integer(6))>>),
      Timeout }

\* ifName walked again for the aggregates
LagNameReplies ==
    { Reply(<<>>),
      Reply(<<Row(5, OctetString(<<84, 114, 107, 49>>))>>),
      Reply(<<Row(5, Integer(5))>>),
      Timeout }

(***************************************************************************)
(* main.rs: session creation and the ten table fetches, each ended by `?`. *)
(***************************************************************************)
Proceed(next) == pc' = next /\ UNCHANGED error

\* a failed fetch that leaves the table empty and lets main() go on
AbortSwallowed(msg) == pc' = "fetch" /\ error' = Some(msg)

\* `?`: main() returns the error
Abort(msg) == pc' = "aborted" /\ error' = Some(msg)

\* let mut sess = create_session(...)?
CreateSession ==
    /\ pc = "session"
    /\ \/ Proceed("fetch")
       \/ Abort("Failed to create SNMP session")
    /\ UNCHANGED <<argVars, parseVars, tableVars, fetches, aggVars, compVars,
                   stdout, decVars>>

Fetching(k) == pc = "fetch" /\ fetches = k /\ fetches' = k + 1

FetchPortIndices ==
    /\ Fetching(0)
    /\ \E reply \in IfIndexReplies :
          LET r == get_u32_table(reply)
          IN  IF r.ok THEN port_indices' = r.value /\ Proceed("fetch")
              ELSE UNCHANGED port_indices /\ Abort(r.value)
    /\ UNCHANGED <<argVars, parseVars, port_names, port_types, port_aliases,
                   vlan_names, vlan_egress_ports, vlan_untagged_ports, port_vlans,
                   lag_selected_agg_ids, lag_agg_names, aggVars, compVars,
                   stdout, decVars>>

FetchPortNames ==
    /\ Fetching(1)
    /\ \E reply \in IfNameReplies :
          LET r == get_string_table(reply)
          IN  IF r.ok THEN port_names' = r.value /\ Proceed("fetch")
              ELSE UNCHANGED port_names /\ Abort(r.value)
    /\ UNCHANGED <<argVars, parseVars, port_indices, port_types, port_aliases,
                   vlan_names, vlan_egress_ports, vlan_untagged_ports, port_vlans,
                   lag_selected_agg_ids, lag_agg_names, aggVars, compVars,
                   stdout, decVars>>

FetchPortTypes ==
    /\ Fetching(2)
    /\ \E reply \in IfTypeReplies :
          LET r == get_u32_table(reply)
          IN  IF r.ok THEN port_types' = r.value /\ Proceed("fetch")
              ELSE UNCHANGED port_types /\ Abort(r.value)
    /\ UNCHANGED <<argVars, parseVars, port_indices, port_names, port_aliases,
                   vlan_names, vlan_egress_ports, vlan_untagged_ports, port_vlans,
                   lag_selected_agg_ids, lag_agg_names, aggVars, compVars,
                   stdout, decVars>>

\* let aliases = get_string_table(IF_ALIAS)?; port_aliases is aliases, or
\* port_names when the alias table is empty
FetchAliases ==
    /\ Fetching(3)
    /\ \E reply \in IfAliasReplies :
          LET r == get_string_table(reply)
          IN  IF r.ok
              THEN /\ port_aliases' = IF DOMAIN r.value # {} THEN r.value
                                      ELSE port_names
                   /\ Proceed("fetch")
              ELSE UNCHANGED port_aliases /\ Abort(r.value)
    /\ UNCHANGED <<argVars, parseVars, port_indices, port_names, port_types,
                   vlan_names, vlan_egress_ports, vlan_untagged_ports, port_vlans,
                   lag_selected_agg_ids, lag_agg_names, aggVars, compVars,
                   stdout, decVars>>

FetchVlanNames ==
    /\ Fetching(4)
    /\ \E reply \in VlanNameReplies :
          LET r == get_string_table(reply)
          IN  IF r.ok THEN vlan_names' = r.value /\ Proceed("fetch")
              ELSE UNCHANGED vlan_names /\ Abort(r.value)
    /\ UNCHANGED <<argVars, parseVars, port_indices, port_names, port_types,
                   port_aliases, vlan_egress_ports, vlan_untagged_ports, port_vlans,
                   lag_selected_agg_ids, lag_agg_names, aggVars, compVars,
                   stdout, decVars>>

FetchVlanEgressPorts ==
    /\ Fetching(5)
    /\ \E reply \in EgressReplies :
          LET r == get_raw_table(reply)
          IN  IF r.ok THEN vlan_egress_ports' = r.value /\ Proceed("fetch")
              ELSE UNCHANGED vlan_egress_ports /\ Abort(r.value)
    /\ UNCHANGED <<argVars, parseVars, port_indices, port_names, port_types,
                   port_aliases, vlan_names, vlan_untagged_ports, port_vlans,
                   lag_selected_agg_ids, lag_agg_names, aggVars, compVars,
                   stdout, decVars>>

FetchVlanUntaggedPorts ==
    /\ Fetching(6)
    /\ \E reply \in UntaggedReplies :
          LET r == get_raw_table(reply)
          IN  IF r.ok THEN vlan_untagged_ports' = r.value /\ Proceed("fetch")
              ELSE UNCHANGED vlan_untagged_ports /\ Abort(r.value)
    /\ UNCHANGED <<argVars, parseVars, port_indices, port_names, port_types,
                   port_aliases, vlan_names, vlan_egress_ports, port_vlans,
                   lag_selected_agg_ids, lag_agg_names, aggVars, compVars,
                   stdout, decVars>>

FetchPortVlans ==
    /\ Fetching(7)
    /\ \E reply \in PvidReplies :
          LET r == get_u32_table(reply)
          IN  IF r.ok THEN port_vlans' = r.value /\ Proceed("fetch")
              ELSE UNCHANGED port_vlans /\ Abort(r.value)
    /\ UNCHANGED <<argVars, parseVars, port_indices, port_names, port_types,
                   port_aliases, vlan_names, vlan_egress_ports,
                   vlan_untagged_ports, lag_selected_agg_ids, lag_agg_names,
                   aggVars, compVars, stdout, decVars>>

FetchLagSelected ==
    /\ Fetching(8)
    /\ \E reply \in LagSelectedReplies :
          LET r == get_u32_table(reply)
          IN  IF r.ok THEN lag_selected_agg_ids' = r.value /\ Proceed("fetch")
              ELSE UNCHANGED lag_selected_agg_ids /\ Abort(r.value)
    /\ UNCHANGED <<argVars, parseVars, port_indices, port_names, port_types,
                   port_aliases, vlan_names, vlan_egress_ports,
                   vlan_untagged_ports, port_vlans, lag_agg_names,
                   aggVars, compVars, stdout, decVars>>

\* the last fetch: aggregation starts after it
FetchLagAggNames ==
    /\ Fetching(9)
    /\ \E reply \in LagNameReplies :
          LET r == get_string_table(reply)
          IN  IF r.ok THEN lag_agg_names' = r.value /\ Proceed("lag")
              ELSE UNCHANGED lag_agg_names /\ Abort(r.value)
    /\ UNCHANGED <<argVars, parseVars, port_indices, port_names, port_types,
                   port_aliases, vlan_names, vlan_egress_ports,
                   vlan_untagged_ports, port_vlans, lag_selected_agg_ids,
                   aggVars, compVars, stdout, decVars>>

(***************************************************************************)
(* main.rs: aggregation.                                                   *)
(***************************************************************************)
is_physical_port(port_type) == port_type = 6 \/ port_type = 117

\* HashMap::get(..).copied().unwrap_or(default)
GetOr(map, k, default) == IF k \in DOMAIN map THEN map[k] ELSE default

\* HashMap::get(..).cloned()
Get(map, k) == IF k \in DOMAIN map THEN Some(map[k]) ELSE None

\* for (vlan_id, ports_data) in table { if port_in_list(id, ports_data) {
\* set.insert(*vlan_id) } }
VlansOf(id, table) == {vlan_id \in DOMAIN table : port_in_list(id, table[vlan_id])}

\* the pair stored whatever it holds
StoresPairAlways(tagged, untagged) == TRUE

\* if !tagged.is_empty() || !untagged.is_empty()
StoresPair(tagged, untagged) == tagged # {} \/ untagged # {}

\* lag_vlan_info after the loop over lag_selected_agg_ids.values()
ResolvedAggregates ==
    LET ids == {agg_id \in Range(lag_selected_agg_ids) :
                   /\ agg_id > 0
                   /\ StoresPair(VlansOf(agg_id, vlan_egress_ports),
                                 VlansOf(agg_id, vlan_untagged_ports))}
    IN  [agg_id \in ids |-> <<VlansOf(agg_id, vlan_egress_ports),
                              VlansOf(agg_id, vlan_untagged_ports)>>]

\* lines 163-191: lag_vlan_info is filled, port_configs starts empty and
\* port_indices.into_values() starts its iteration
ResolveAggregates ==
    /\ pc = "lag"
    /\ lag_vlan_info' = ResolvedAggregates
    /\ pending' = DOMAIN port_indices
    /\ port_configs' = <<>>
    /\ pc' = "build"
    /\ UNCHANGED <<argVars, parseVars, tableVars, fetchVars, next_override,
                   compVars, stdout, decVars>>

\* the LacpInfo of a port as lines 226-241 compute it
NaturalLacpInfo(port_num) ==
    IF port_num \in DOMAIN lag_selected_agg_ids
       /\ lag_selected_agg_ids[port_num] > 0
    THEN LET selected_agg_id == lag_selected_agg_ids[port_num]
         IN  Some([selected_agg_id |-> selected_agg_id,
                   agg_name  |-> Get(lag_agg_names, selected_agg_id),
                   agg_vlans |-> Get(lag_vlan_info, selected_agg_id)])
    ELSE None

\* port_aliases.get(&port_num).filter(|a| a != port_num.to_string())
BuiltAlias(port_num) ==
    IF port_num \in DOMAIN port_aliases /\ port_aliases[port_num] # to_string(port_num)
    THEN Some(port_aliases[port_num])
    ELSE None

\* the PortConfig pushed for port_num (lines 200-250)
BuiltConfig(port_num) ==
    [port_num         |-> port_num,
     alias            |-> BuiltAlias(port_num),
     pvid             |-> GetOr(port_vlans, port_num, 0),
     vlan_memberships |-> VlansOf(port_num, vlan_egress_ports),
     untagged_vlans   |-> VlansOf(port_num, vlan_untagged_ports),
     lacp_info        |-> NaturalLacpInfo(port_num)]

\* one iteration of `for port_num in port_indices.into_values()`: the map
\* hands out its values in an order of its own
BuildPort ==
    /\ pc = "build"
    /\ \E k \in pending :
          LET port_num == port_indices[k]
              port_type == GetOr(port_types, port_num, 0)
          IN  /\ pending' = pending \ {k}
              /\ IF ~is_physical_port(port_type)
                 THEN UNCHANGED port_configs
                 ELSE port_configs' = Append(port_configs, BuiltConfig(port_num))
    /\ UNCHANGED <<pc, argVars, parseVars, tableVars, fetchVars, lag_vlan_info,
                   next_override, compVars, stdout, decVars>>

BuildDone ==
    /\ pc = "build"
    /\ pending = {}
    /\ pc' = "override"
    /\ UNCHANGED <<argVars, parseVars, tableVars, fetchVars, aggVars, compVars,
                   stdout, decVars>>

\* find() that falls back on the first PortConfig when no port number matches
FindConfigOrFirst(configs, target_port) ==
    LET hits == {j \in 1..Len(configs) : configs[j].port_num = target_port}
    IN  IF hits = {} THEN (IF configs = <<>> THEN 0 ELSE 1)
        ELSE CHOOSE j \in hits : \A h \in hits : j <= h

\* port_configs.iter_mut().find(|p| p.port_num == target_port): the index of
\* the first PortConfig of that port number, 0 when there is none
FindConfig(configs, target_port) ==
    LET hits == {j \in 1..Len(configs) : configs[j].port_num = target_port}
    IN  IF hits = {} THEN 0 ELSE CHOOSE j \in hits : \A h \in hits : j <= h

\* the synthetic LacpInfo of an override (lines 277-281)
OverrideLacpInfo(source_interface) ==
    [selected_agg_id |-> source_interface,
     agg_name  |-> Some(<<"T", "r", "k">> \o to_string(source_interface)),
     agg_vlans |-> Some(<<VlansOf(source_interface, vlan_egress_ports),
                         VlansOf(source_interface, vlan_untagged_ports)>>)]

\* the body of `for target_port in &override_info.target_ports`, from the
\* i-th target on
RECURSIVE ApplyTargets(_, _, _)
ApplyTargets(configs, override_info, i) ==
    IF i > Len(override_info.target_ports) THEN configs
    ELSE LET j == FindConfig(configs, override_info.target_ports[i])
         IN  IF j = 0 THEN ApplyTargets(configs, override_info, i + 1)
             ELSE ApplyTargets(
                    [configs EXCEPT
                       ![j].alias = Get(port_aliases, override_info.source_interface),
                       ![j].lacp_info =
                           Some(OverrideLacpInfo(override_info.source_interface))],
                    override_info, i + 1)

\* one iteration of `for override_info in &lacp_overrides`
ApplyOverride ==
    /\ pc = "override"
    /\ next_override <= Len(lacp_overrides)
    /\ port_configs' = ApplyTargets(port_configs, lacp_overrides[next_override], 1)
    /\ next_override' = next_override + 1
    /\ UNCHANGED <<pc, argVars, parseVars, tableVars, fetchVars, lag_vlan_info,
                   pending, compVars, stdout, decVars>>

OverridesDone ==
    /\ pc = "override"
    /\ next_override > Len(lacp_overrides)
    /\ pc' = "overlay"
    /\ UNCHANGED <<argVars, parseVars, tableVars, fetchVars, aggVars, compVars,
                   stdout, decVars>>

\* the overlay as a union with the port's own sets
OverlaidUnion(config) ==
    IF config.lacp_info # None /\ Unwrap(config.lacp_info).agg_vlans # None
    THEN LET pair == Unwrap(Unwrap(config.lacp_info).agg_vlans)
         IN  [config EXCEPT !.vlan_memberships = @ \cup pair[1],
                            !.untagged_vlans   = @ \cup pair[2]]
    ELSE config

\* lines 288-293 for one PortConfig
Overlaid(config) ==
    IF config.lacp_info # None /\ Unwrap(config.lacp_info).agg_vlans # None
    THEN LET pair == Unwrap(Unwrap(config.lacp_info).agg_vlans)
         IN  [config EXCEPT !.vlan_memberships = pair[1],
                            !.untagged_vlans   = pair[2]]
    ELSE config

\* Update VLAN memberships based on LACP info
Overlay ==
    /\ pc = "overlay"
    /\ port_configs' = [j \in 1..Len(port_configs) |-> Overlaid(port_configs[j])]
    /\ pc' = "sort"
    /\ UNCHANGED <<argVars, parseVars, tableVars, fetchVars, lag_vlan_info,
                   pending, next_override, compVars, stdout, decVars>>

\* the list left in the order the build loop produced it
LeftUnsorted(configs) == configs

\* insertion of x after the elements whose key is not larger (stable)
RECURSIVE InsertSorted(_, _)
InsertSorted(sorted, x) ==
    IF sorted = <<>> THEN <<x>>
    ELSE IF Head(sorted).port_num <= x.port_num
         THEN <<Head(sorted)>> \o InsertSorted(Tail(sorted), x)
         ELSE <<x>> \o sorted

\* sort_by_key(|config| config.port_num): a stable sort
RECURSIVE SortByPortNum(_)
SortByPortNum(configs) ==
    IF configs = <<>> THEN <<>>
    ELSE InsertSorted(SortByPortNum(SubSeq(configs, 1, Len(configs) - 1)),
                      configs[Len(configs)])

\* lines 296-303
Sort ==
    /\ pc = "sort"
    /\ port_configs' = SortByPortNum(port_configs)
    /\ cursor' = 1
    /\ current_config' = None /\ current_start' = 0 /\ current_end' = 0
    /\ port_ranges' = <<>>
    /\ pc' = "compress"
    /\ UNCHANGED <<argVars, parseVars, tableVars, fetchVars, lag_vlan_info,
                   pending, next_override, stdout, decVars>>

(***************************************************************************)
(* main.rs: range compression (lines 299-358).                             *)
(***************************************************************************)
configs_match(a, b) ==
    /\ a.pvid = b.pvid
    /\ a.vlan_memberships = b.vlan_memberships
    /\ a.untagged_vlans = b.untagged_vlans
    /\ a.alias = b.alias
    /\ a.lacp_info = b.lacp_info

\* the test that extends the open range, contiguity taken from the start of
\* the range instead of its end
Extends_from_start(current, config) ==
    configs_match(current, config) /\ config.port_num = current_start + 1

\* the test that extends the open range, without the test of contiguity
Extends_ignoring_gaps(current, config) == configs_match(current, config)

\* configs_match(current, &config) && port_num == current_end + 1
Extends(current, config) ==
    configs_match(current, config) /\ config.port_num = current_end + 1

\* the PortRange pushed for the open range
ClosedRange(current) ==
    [first_port       |-> current_start,
     last_port        |-> current_end,
     alias            |-> current.alias,
     pvid             |-> current.pvid,
     vlan_memberships |-> current.vlan_memberships,
     untagged_vlans   |-> current.untagged_vlans,
     lacp_info        |-> current.lacp_info]

\* one iteration of `for config in port_configs`
CompressStep ==
    /\ pc = "compress"
    /\ cursor <= Len(port_configs)
    /\ LET config == port_configs[cursor]
           port_num == config.port_num
       IN  IF current_config # None /\ Extends(Unwrap(current_config), config)
           THEN /\ current_end' = port_num
                /\ UNCHANGED <<current_config, current_start, port_ranges>>
           ELSE /\ port_ranges' =
                      IF current_config # None
                      THEN Append(port_ranges, ClosedRange(Unwrap(current_config)))
                      ELSE port_ranges
                /\ current_config' = Some(config)
                /\ current_start' = port_num
                /\ current_end' = port_num
    /\ cursor' = cursor + 1
    /\ UNCHANGED <<pc, argVars, parseVars, tableVars, fetchVars, aggVars,
                   stdout, decVars>>

\* Add the last range if it exists: current_config is moved out
EmitLast ==
    /\ pc = "compress"
    /\ cursor > Len(port_configs)
    /\ port_ranges' =
          IF current_config # None
          THEN Append(port_ranges, ClosedRange(Unwrap(current_config)))
          ELSE port_ranges
    /\ current_config' = None
    /\ pc' = "render"
    /\ UNCHANGED <<cursor, current_start, current_end, argVars, parseVars,
                   tableVars, fetchVars, aggVars, stdout, decVars>>

(***************************************************************************)
(* output.rs: the rows of the table (generate_markdown_table lines 33-116; *)
(* html_output.rs computes the same four cells).  The line with the time   *)
(* of day is left out.                                                     *)
(***************************************************************************)
\* the elements of a set of numbers in ascending order (sort_unstable)
RECURSIVE Ascending(_)
Ascending(set) ==
    IF set = {} THEN <<>>
    ELSE LET m == CHOOSE x \in set : \A y \in set : x <= y
         IN  <<m>> \o Ascending(set \ {m})

\* VLAN 1 by its number, a named VLAN as "name (id)", any other by its number
VlanLabel(vlan_id) ==
    IF vlan_id = 1 THEN to_string(vlan_id)
    ELSE IF vlan_id \in DOMAIN vlan_names
         THEN vlan_names[vlan_id] \o <<" ", "(">> \o to_string(vlan_id) \o <<")">>
         ELSE to_string(vlan_id)

VlanList(set) ==
    LET ids == Ascending(set)
    IN  join([i \in 1..Len(ids) |-> VlanLabel(ids[i])], CommaSpace)

\* the VLAN(s) cell of a range
VlanCell(range) ==
    LET tagged == IF range.vlan_memberships # {}
                  THEN << <<"T", "a", "g", "g", "e", "d", ":", "[">>
                          \o VlanList(range.vlan_memberships) \o <<"]">> >>
                  ELSE <<>>
        untagged == IF range.untagged_vlans # {}
                    THEN << <<"U", "n", "t", "a", "g", "g", "e", "d", ":", "[">>
                            \o VlanList(range.untagged_vlans) \o <<"]">> >>
                    ELSE <<>>
    IN  IF /\ Cardinality(range.untagged_vlans) = 1
           /\ Cardinality(range.vlan_memberships) <= 1
           /\ range.pvid = Unwrap(range.untagged_vlans)
        THEN VlanLabel(Unwrap(range.untagged_vlans))
        ELSE join(tagged \o untagged, <<" ">>)

TableRow(range) ==
    [port  |-> IF range.first_port = range.last_port
               THEN to_string(range.first_port)
               ELSE to_string(range.first_port) \o <<"-">> \o to_string(range.last_port),
     alias |-> IF range.alias # None THEN Unwrap(range.alias) ELSE <<>>,
     vlans |-> VlanCell(range),
     lacp  |-> IF range.lacp_info = None THEN <<>>
               ELSE IF Unwrap(range.lacp_info).agg_name # None
                    THEN Unwrap(Unwrap(range.lacp_info).agg_name)
                    ELSE <<"U", "n", "k", "n", "o", "w", "n">>]

HeaderRow ==
    [port  |-> <<"P", "o", "r", "t">>,
     alias |-> <<"A", "l", "i", "a", "s">>,
     vlans |-> <<"V", "L", "A", "N", "(", "s", ")">>,
     lacp  |-> <<"L", "A", "C", "P">>]

\* the rows of the table: a range that starts above port 52 has none
TableRows(ranges) ==
    LET shown == SelectSeq(ranges, LAMBDA range : ~(range.first_port > 52))
    IN  <<HeaderRow>> \o [i \in 1..Len(shown) |-> TableRow(shown[i])]

\* lines 360-382: println!("{}", output); Ok(())
PrintReport ==
    /\ pc = "render"
    /\ stdout' = TableRows(port_ranges)
    /\ pc' = "done"
    /\ UNCHANGED <<argVars, parseVars, tableVars, fetchVars, aggVars, compVars,
                   decVars>>

(***************************************************************************)
(* The run of main().                                                      *)
(***************************************************************************)
\* the --override-lacp arguments of the runs: two targets of aggregate 5,
\* and one target of interface 7, which is in no VLAN
OverrideArguments ==
    { <<"5", ":", "1", ",", "2">>, <<"7", ":", "1">> }

Init ==
    /\ pc = "parse"
    /\ override_lacp \in SeqsUpTo(OverrideArguments, MaxOverrides)
    /\ ignore_alias \in BOOLEAN
    /\ PipelineStart
    /\ DecoderStart

Next ==
    \/ ParseOverride \/ ParseDone
    \/ CreateSession
    \/ FetchPortIndices \/ FetchPortNames \/ FetchPortTypes \/ FetchAliases
    \/ FetchVlanNames \/ FetchVlanEgressPorts \/ FetchVlanUntaggedPorts
    \/ FetchPortVlans \/ FetchLagSelected \/ FetchLagAggNames
    \/ ResolveAggregates
    \/ BuildPort \/ BuildDone
    \/ ApplyOverride \/ OverridesDone
    \/ Overlay
    \/ Sort
    \/ CompressStep \/ EmitLast
    \/ PrintReport

Spec == Init /\ [][Next]_vars

(***************************************************************************)
(* The range compressor applied on its own to every sorted list of at most *)
(* MaxRun port configurations over the ports 1..MaxPortId.  A port number  *)
(* may occur twice (an ifIndex table that reports it under two indices).   *)
(***************************************************************************)
MaxPortId == 4

PlainConfig(port_num) ==
    [port_num |-> port_num, alias |-> None, pvid |-> 10,
     vlan_memberships |-> {}, untagged_vlans |-> {10}, lacp_info |-> None]

\* configurations that differ from one another in one field each
ConfigKinds(port_num) ==
    { PlainConfig(port_num),
      [PlainConfig(port_num) EXCEPT !.alias = Some(<<"u", "p">>)],
      [PlainConfig(port_num) EXCEPT
          !.lacp_info = Some([selected_agg_id |-> 5, agg_name |-> None,
                              agg_vlans |-> None])] }

SortedConfigLists ==
    LET nums == {l \in SeqsUpTo(1..MaxPortId, MaxRun) :
                    \A i \in 1..(Len(l) - 1) : l[i] <= l[i + 1]}
        Lists(l) == {c \in [1..Len(l) -> UNION {ConfigKinds(n) : n \in 1..MaxPortId}] :
                        \A i \in 1..Len(l) : c[i] \in ConfigKinds(l[i])}
    IN  UNION {Lists(l) : l \in nums}

InitCompress ==
    /\ pc = "compress"
    /\ override_lacp = <<>> /\ ignore_alias = FALSE
    /\ StartBeforeConfigs
    /\ port_configs \in SortedConfigLists
    /\ DecoderStart

NextCompress == CompressStep \/ EmitLast

SpecCompress == InitCompress /\ [][NextCompress]_vars

\* the five fields two configurations (of ports or of ranges) are compared on
SameConfiguration(a, b) ==
    /\ a.pvid = b.pvid
    /\ \A v \in a.vlan_memberships \cup b.vlan_memberships :
          v \in a.vlan_memberships /\ v \in b.vlan_memberships
    /\ \A v \in a.untagged_vlans \cup b.untagged_vlans :
          v \in a.untagged_vlans /\ v \in b.untagged_vlans
    /\ (a.alias = None) = (b.alias = None)
    /\ a.alias # None => Unwrap(a.alias) = Unwrap(b.alias)
    /\ (a.lacp_info = None) = (b.lacp_info = None)
    /\ a.lacp_info # None =>
          LET x == Unwrap(a.lacp_info)
              y == Unwrap(b.lacp_info)
          IN  /\ x.selected_agg_id = y.selected_agg_id
              /\ x.agg_name = y.agg_name
              /\ x.agg_vlans = y.agg_vlans

\* C1 as stated: for an input list sorted ascending by port id (no port
\* twice), no two ranges adjacent in the emitted list carry an equal
\* configuration.
C1_NoEqualNeighbours ==
    (\A i \in 1..(Len(port_configs) - 1) :
        port_configs[i].port_num < port_configs[i + 1].port_num)
    => \A i \in 1..(Len(port_ranges) - 1) :
          ~SameConfiguration(port_ranges[i], port_ranges[i + 1])

\* C1 as amended: no two ranges adjacent in the emitted list, the second of
\* which starts at the port right after the last port of the first, carry
\* an equal configuration (a gap in the port numbers separates two ranges
\* whatever their configurations are).
C1_NoEqualContiguousNeighbours ==
    \A i \in 1..(Len(port_ranges) - 1) :
        port_ranges[i + 1].first_port = port_ranges[i].last_port + 1
            => ~SameConfiguration(port_ranges[i], port_ranges[i + 1])

\* ports were merged into a range, and the range after it starts at the
\* very next port
C1_Witness ==
    /\ pc = "render"
    /\ Len(port_ranges) >= 2
    /\ port_ranges[1].first_port < port_ranges[1].last_port
    /\ port_ranges[2].first_port = port_ranges[1].last_port + 1

\* the range a step closes
EmittedRange ==
    [first_port       |-> current_start,
     last_port        |-> current_end,
     alias            |-> Unwrap(current_config).alias,
     pvid             |-> Unwrap(current_config).pvid,
     vlan_memberships |-> Unwrap(current_config).vlan_memberships,
     untagged_vlans   |-> Unwrap(current_config).untagged_vlans,
     lacp_info        |-> Unwrap(current_config).lacp_info]

\* Open -> Open
StepExtends(config) ==
    /\ current_end' = config.port_num
    /\ UNCHANGED <<current_config, current_start, port_ranges>>

\* Empty -> Open, or Open -> Closed+Open
StepOpens(config) ==
    /\ port_ranges' = IF current_config = None THEN port_ranges
                      ELSE Append(port_ranges, EmittedRange)
    /\ current_config' = Some(config)
    /\ current_start' = config.port_num /\ current_end' = config.port_num

\* Open -> Closed, after the last port
StepCloses ==
    /\ port_ranges' = IF current_config = None THEN port_ranges
                      ELSE Append(port_ranges, EmittedRange)
    /\ current_config' = None

CompressorTransition ==
    pc = "compress" =>
        IF cursor <= Len(port_configs)
        THEN LET config == port_configs[cursor]
             IN  /\ cursor' = cursor + 1 /\ pc' = "compress"
                 /\ IF /\ current_config # None
                       /\ config.port_num = current_end + 1
                       /\ SameConfiguration(Unwrap(current_config), config)
                    THEN StepExtends(config)
                    ELSE StepOpens(config)
        ELSE StepCloses /\ pc' # "compress"

PortNumbers == [i \in 1..Len(port_configs) |-> port_configs[i].port_num]

RangeBounds == [i \in 1..Len(port_ranges) |->
                   <<port_ranges[i].first_port, port_ranges[i].last_port>>]

GapExample ==
    /\ PortNumbers = <<1, 2, 4>>
    /\ \A i \in 1..3 : SameConfiguration(port_configs[i], port_configs[1])

\* C2: in the single left-to-right pass the open range is extended by the
\* next port exactly when that port's id is end+1 and its full configuration
\* equals the representative; otherwise the open range (if any) is emitted
\* and a new one opens at that port; after the last port the open range is
\* emitted once; no other transition occurs.  Ports 1, 2, 4 of identical
\* configuration give exactly the ranges [1-2] and [4-4].
C2_CompressorTransitions ==
    /\ [][CompressorTransition]_vars
    /\ [](pc # "compress" /\ GapExample => RangeBounds = << <<1, 2>>, <<4, 4>> >>)

\* ports 1, 2, 4 of identical configuration were compressed into two ranges
C2_Witness ==
    /\ pc = "render"
    /\ GapExample
    /\ Len(port_ranges) = 2

(***************************************************************************)
(* Properties of the run of main().                                        *)
(***************************************************************************)
\* the positions of main() from which the final configurations are read
AfterOverlay == pc \in {"sort", "compress", "render", "done"}

AfterCompression == pc \in {"render", "done"}

\* the VLANs whose bitmask has the bit of interface id set
WalkedVlans(id, table) == {v \in DOMAIN table : id \in PortSet(table[v])}

WalkedTagged(id) == WalkedVlans(id, vlan_egress_ports)

WalkedUntagged(id) == WalkedVlans(id, vlan_untagged_ports)

\* the ports that passed the interface filter
ReportedPorts ==
    {port_indices[k] : k \in {i \in DOMAIN port_indices :
        port_indices[i] \in DOMAIN port_types
        /\ port_types[port_indices[i]] \in {6, 117}}}

RangesHolding(p) ==
    {i \in 1..Len(port_ranges) :
        port_ranges[i].first_port <= p /\ p <= port_ranges[i].last_port}

\* C3: in the emitted list every range has first_port <= last_port, every
\* port that passed the interface filter lies in exactly one range and no
\* other port id lies in any range, and every port of a range has a final
\* configuration equal to the configuration stored in the range; also when
\* the ifIndex table reports a port number under two indices.
C3_RangesPartitionPorts ==
    AfterCompression =>
        /\ \A i \in 1..Len(port_ranges) :
              port_ranges[i].first_port <= port_ranges[i].last_port
        /\ \A p \in ReportedPorts : Cardinality(RangesHolding(p)) = 1
        /\ \A i \in 1..Len(port_ranges) :
              \A p \in port_ranges[i].first_port..port_ranges[i].last_port :
                 /\ p \in ReportedPorts
                 /\ \A j \in 1..Len(port_configs) :
                       port_configs[j].port_num = p
                           => SameConfiguration(port_configs[j], port_ranges[i])

\* the pair (T, U) a PortConfig's LacpInfo carries, None when it has none
CarriedPair(config) ==
    IF config.lacp_info = None THEN None
    ELSE Unwrap(config.lacp_info).agg_vlans

\* C4: after the overlay, a port whose LacpInfo carries a pair (T, U) with T
\* or U non-empty has the tagged set exactly T and the untagged set exactly
\* U, whatever the sets walked for the port itself were.
C4_OverlayReplaces ==
    AfterOverlay =>
        \A j \in 1..Len(port_configs) :
            LET config == port_configs[j]
            IN  CarriedPair(config) # None
                /\ Unwrap(CarriedPair(config)) # <<{}, {}>>
                => /\ config.vlan_memberships = Unwrap(CarriedPair(config))[1]
                   /\ config.untagged_vlans = Unwrap(CarriedPair(config))[2]

\* a reported port whose own tagged VLANs are not among those of its
\* aggregate, and which ends with the aggregate's
C4_Witness ==
    /\ pc = "done"
    /\ \E j \in 1..Len(port_configs) :
          LET config == port_configs[j]
          IN  /\ CarriedPair(config) # None
              /\ Unwrap(CarriedPair(config))[1] # {}
              /\ WalkedTagged(config.port_num) # {}
              /\ WalkedTagged(config.port_num) \cap Unwrap(CarriedPair(config))[1] = {}
              /\ config.vlan_memberships = Unwrap(CarriedPair(config))[1]

\* C5: after the overlay, a port whose LacpInfo has no pair, or a pair of
\* two empty sets, has the tagged and untagged sets walked for the port
\* itself.
C5_NoOverlayWithoutPair ==
    AfterOverlay =>
        \A j \in 1..Len(port_configs) :
            LET config == port_configs[j]
            IN  CarriedPair(config) = None \/ Unwrap(CarriedPair(config)) = <<{}, {}>>
                => /\ config.vlan_memberships = WalkedTagged(config.port_num)
                   /\ config.untagged_vlans = WalkedUntagged(config.port_num)

\* the overrides that list port p as a target
OverridesOf(p) ==
    {i \in 1..Len(lacp_overrides) :
        \E t \in 1..Len(lacp_overrides[i].target_ports) :
            lacp_overrides[i].target_ports[t] = p}

LastOverrideOf(p) ==
    lacp_overrides[CHOOSE i \in OverridesOf(p) : \A h \in OverridesOf(p) : h <= i]

\* C6: once the overrides are applied, every reported port that is a target
\* of an override has, with S the source of the last such override, the
\* alias the alias/name map gives S and the LacpInfo (S, "Trk<S>", the pair
\* read for S from the VLAN bitmasks).
C6_OverrideWins ==
    pc \in {"overlay", "sort", "compress", "render", "done"} =>
        \A j \in 1..Len(port_configs) :
            LET config == port_configs[j]
            IN  OverridesOf(config.port_num) # {} =>
                  LET S == LastOverrideOf(config.port_num).source_interface
                  IN  /\ config.alias = (IF S \in DOMAIN port_aliases
                                         THEN {port_aliases[S]} ELSE {})
                      /\ config.lacp_info =
                            {[selected_agg_id |-> S,
                              agg_name  |-> {<<"T", "r", "k">> \o to_string(S)},
                              agg_vlans |-> {<<WalkedTagged(S), WalkedUntagged(S)>>}]}

\* C6 for the runs in which no port number is reported twice
C6_OverrideWinsOnDistinctPorts ==
    (\A i, j \in 1..Len(port_configs) :
        port_configs[i].port_num = port_configs[j].port_num => i = j)
    => C6_OverrideWins

\* the ten tables in the order main() fetches them
Tables ==
    <<port_indices, port_names, port_types, port_aliases, vlan_names,
      vlan_egress_ports, vlan_untagged_ports, port_vlans,
      lag_selected_agg_ids, lag_agg_names>>

NothingAggregated ==
    /\ lag_vlan_info = EmptyMap /\ port_configs = <<>> /\ port_ranges = <<>>

\* a run that failed has stopped and printed nothing; aggregation runs only
\* after ten fetches without failure; only a finished run has printed
FailFastState ==
    /\ error # None => pc = "aborted" /\ stdout = <<>>
    /\ pc = "aborted" => error # None
    /\ pc \in {"parse", "session", "fetch", "aborted"} => NothingAggregated
    /\ pc \in {"parse", "session"} => fetches = 0
    /\ pc \notin {"parse", "session", "fetch", "aborted"} => fetches = 10
    /\ stdout # <<>> => pc = "done"

\* a failure arises at session creation or at a fetch; fetches are issued
\* one at a time, table k by fetch k; after a failure nothing is fetched or
\* printed any more
FailFastStep ==
    /\ error = None /\ error' # None => pc \in {"session", "fetch"}
    /\ fetches' # fetches =>
          /\ pc = "fetch" /\ error = None
          /\ fetches' = fetches + 1
    /\ \A k \in 1..10 : Tables'[k] # Tables[k] => fetches = k - 1 /\ fetches' = k
    /\ error # None => UNCHANGED <<pc, error, fetches, stdout, Tables>>

\* C8: the ten table fetches are performed one after the other before any
\* aggregation starts; if session creation or a fetch fails (a timeout or
\* transport error, an integer in a table that must be textual) the run
\* ends with that error, no later fetch is issued and nothing is ever
\* written to standard output.
C8_FailFast == []FailFastState /\ [][FailFastStep]_vars

\* the fifth fetch (the VLAN names) met an integer: the run stopped there
\* with nothing aggregated and nothing printed
C8_Witness ==
    /\ pc = "aborted"
    /\ fetches = 5
    /\ error = {"Expected string (OctetString) value but got integer"}
    /\ DOMAIN port_types # {}
    /\ vlan_egress_ports = EmptyMap
    /\ stdout = <<>>

\* the aggregate ids the selection table selects
SelectedAggregates ==
    {lag_selected_agg_ids[k] : k \in DOMAIN lag_selected_agg_ids} \ {0}

\* the LacpInfo the resolution gives a port: none for a selection of 0 or
\* no selection, else the aggregate, its name if the name table has one and
\* its stored pair if one was stored
ResolvedLacpInfo(p) ==
    IF p \notin DOMAIN lag_selected_agg_ids \/ lag_selected_agg_ids[p] = 0 THEN {}
    ELSE LET A == lag_selected_agg_ids[p]
         IN  {[selected_agg_id |-> A,
               agg_name  |-> IF A \in DOMAIN lag_agg_names THEN {lag_agg_names[A]} ELSE {},
               agg_vlans |-> IF WalkedTagged(A) # {} \/ WalkedUntagged(A) # {}
                             THEN {<<WalkedTagged(A), WalkedUntagged(A)>>}
                             ELSE {}]}

\* C10: once the aggregates are resolved, the pair (tagged(A), untagged(A))
\* of a selected aggregate A > 0 is stored exactly when one of the two sets
\* is non-empty; and every port built gets, until an override names it, the
\* LacpInfo of its selection: aggregate A, A's name if the name table has
\* one, the stored pair if there is one; none for a selection of 0 or no
\* selection.
C10_AggregateResolution ==
    pc \notin {"parse", "session", "fetch", "aborted", "lag"} =>
        /\ \A A \in SelectedAggregates :
              /\ A \in DOMAIN lag_vlan_info
                    <=> (WalkedTagged(A) # {} \/ WalkedUntagged(A) # {})
              /\ A \in DOMAIN lag_vlan_info
                    => lag_vlan_info[A] = <<WalkedTagged(A), WalkedUntagged(A)>>
        /\ DOMAIN lag_vlan_info \subseteq SelectedAggregates
        /\ \A j \in 1..Len(port_configs) :
              \/ OverridesOf(port_configs[j].port_num) = {}
              \/ pc = "build"
              \/ pc = "override" /\ next_override = 1
              => port_configs[j].lacp_info = ResolvedLacpInfo(port_configs[j].port_num)

\* ports were built with an aggregate that has a stored pair and a name,
\* with an aggregate that has neither, and with no aggregate at all
C10_Witness ==
    /\ pc = "override"
    /\ \E i, j, k \in 1..Len(port_configs) :
          /\ port_configs[i].lacp_info # None
          /\ Unwrap(port_configs[i].lacp_info).agg_vlans # None
          /\ Unwrap(port_configs[i].lacp_info).agg_name # None
          /\ port_configs[j].lacp_info # None
          /\ Unwrap(port_configs[j].lacp_info).agg_vlans = None
          /\ Unwrap(port_configs[j].lacp_info).agg_name = None
          /\ port_configs[k].lacp_info = None
          /\ port_configs[k].port_num \in DOMAIN lag_selected_agg_ids

(***************************************************************************)
(* Aliases.                                                                *)
(***************************************************************************)
\* the positions of main() at which port_configs holds built ports
AfterBuild == pc \in {"override", "overlay", "sort", "compress", "render", "done"}

\* the alias table holds the empty string for port p
EmptyAliasEntry(p) == p \in DOMAIN port_aliases /\ port_aliases[p] = <<>>

\* two port configurations equal in everything but port number and alias
SameButAlias(a, b) ==
    /\ a.pvid = b.pvid
    /\ a.vlan_memberships = b.vlan_memberships
    /\ a.untagged_vlans = b.untagged_vlans
    /\ a.lacp_info = b.lacp_info

\* C11: a port whose alias table entry is the empty string and that no
\* override names has a PortConfig with no alias, and so has the range
\* built from it; two such neighbours in the sorted list, one with the empty
\* string and one with no entry at all, at contiguous port ids and otherwise
\* equal, lie in one range.
C11_EmptyAliasAbsent ==
    /\ AfterBuild =>
          \A j \in 1..Len(port_configs) :
              EmptyAliasEntry(port_configs[j].port_num)
              /\ OverridesOf(port_configs[j].port_num) = {}
              => port_configs[j].alias = None
    /\ AfterCompression =>
          /\ \A i \in 1..Len(port_ranges) :
                EmptyAliasEntry(port_ranges[i].first_port)
                /\ OverridesOf(port_ranges[i].first_port) = {}
                => port_ranges[i].alias = None
          /\ \A j \in 1..(Len(port_configs) - 1) :
                LET a == port_configs[j]
                    b == port_configs[j + 1]
                IN  /\ b.port_num = a.port_num + 1
                    /\ SameButAlias(a, b)
                    /\ OverridesOf(a.port_num) = {} /\ OverridesOf(b.port_num) = {}
                    /\ \/ EmptyAliasEntry(a.port_num) /\ b.port_num \notin DOMAIN port_aliases
                       \/ EmptyAliasEntry(b.port_num) /\ a.port_num \notin DOMAIN port_aliases
                    => RangesHolding(a.port_num) = RangesHolding(b.port_num)

\* C14: with the ignore_alias flag set every PortConfig and every emitted
\* range has no alias (so that no alias splits a range); without it a port
\* that no override names has the alias walked for it, when that alias is
\* not the port number itself.
C14_IgnoreAliasTakesEffect ==
    /\ ignore_alias /\ AfterBuild =>
          \A j \in 1..Len(port_configs) : port_configs[j].alias = None
    /\ ignore_alias /\ AfterCompression =>
          \A i \in 1..Len(port_ranges) : port_ranges[i].alias = None
    /\ ~ignore_alias /\ AfterBuild =>
          \A j \in 1..Len(port_configs) :
              LET p == port_configs[j].port_num
              IN  OverridesOf(p) = {} /\ p \in DOMAIN port_aliases
                  /\ port_aliases[p] # to_string(p) /\ port_aliases[p] # <<>>
                  => port_configs[j].alias = Some(port_aliases[p])

(***************************************************************************)
(* The VLAN(s) cell of the report.                                         *)
(***************************************************************************)
\* the text `sub` occurs in the text `cell`
Occurs(sub, cell) == \E i \in 1..Len(cell) : MatchAt(cell, sub, i)

\* the text `sub` occurs in `cell` after the text "Tagged:["
ListedAsTagged(sub, cell) ==
    \E i \in 1..Len(cell) :
        /\ MatchAt(cell, <<"T", "a", "g", "g", "e", "d", ":", "[">>, i)
        /\ \E k \in (i + 8)..Len(cell) : MatchAt(cell, sub, k)

\* exactly one untagged VLAN, equal to the PVID, and no tagged VLAN but it
SameVlanTaggedAndUntagged(range) ==
    /\ Cardinality(range.untagged_vlans) = 1
    /\ range.pvid \in range.untagged_vlans
    /\ range.vlan_memberships \subseteq range.untagged_vlans

\* C15: in the printed table the VLAN cell of a range that is not "one
\* untagged VLAN, equal to the PVID, tagged set empty or that same VLAN"
\* names every tagged VLAN id of the range after "Tagged:[", and has the
\* "Untagged:[" list when the range has untagged VLANs.
C15_CollapseKeepsTaggedVlans ==
    pc = "done" =>
        \A i \in 1..Len(port_ranges) :
            LET range == port_ranges[i]
                cell  == stdout[i + 1].vlans
            IN  ~SameVlanTaggedAndUntagged(range) =>
                  /\ \A v \in range.vlan_memberships :
                        ListedAsTagged(to_string(v), cell)
                  /\ range.untagged_vlans # {} =>
                        Occurs(<<"U", "n", "t", "a", "g", "g", "e", "d", ":", "[">>, cell)

(***************************************************************************)
(* The frame of the override loop.                                         *)
(***************************************************************************)
\* the step that applies the override at next_override
OverrideApplied == pc = "override" /\ next_override' = next_override + 1

TargetsOf(override_info) ==
    {override_info.target_ports[t] : t \in 1..Len(override_info.target_ports)}

\* C16: a step that applies an override keeps the number and the order of
\* the port configurations (a target that matches no built port adds no
\* entry and raises no error), keeps port number, PVID, tagged and untagged
\* set of every entry, and keeps every field of every entry whose port is
\* not a target; an entry it changes has the alias and the LacpInfo of the
\* override's source.  Nothing but port_configs and the loop index changes.
C16_OverrideFrame ==
    [][OverrideApplied =>
         LET override_info == lacp_overrides[next_override]
         IN  /\ Len(port_configs') = Len(port_configs)
             /\ error' = error /\ pc' = pc
             /\ UNCHANGED <<tableVars, parseVars, lag_vlan_info, compVars, stdout>>
             /\ \A j \in 1..Len(port_configs) :
                   LET before == port_configs[j]
                       after  == port_configs'[j]
                   IN  /\ after.port_num = before.port_num
                       /\ after.pvid = before.pvid
                       /\ after.vlan_memberships = before.vlan_memberships
                       /\ after.untagged_vlans = before.untagged_vlans
                       /\ before.port_num \notin TargetsOf(override_info)
                             => after = before
                       /\ after # before =>
                             /\ after.alias =
                                   Get(port_aliases, override_info.source_interface)
                             /\ after.lacp_info # None
                             /\ Unwrap(after.lacp_info).selected_agg_id =
                                   override_info.source_interface]_vars

\* an override was applied of which one target is a built port and another
\* is not (port 2 filtered out by its type), next to a port that is no target
C16_Witness ==
    /\ pc = "override" /\ next_override > 1
    /\ LET targets == TargetsOf(lacp_overrides[next_override - 1])
           built == {port_configs[j].port_num : j \in 1..Len(port_configs)}
       IN  /\ targets \cap built # {}
           /\ targets \ built # {}
           /\ built \ targets # {}

(***************************************************************************)
(* Determinism: the outcome as a function of the tables and the overrides, *)
(* computed with the ifIndex table read in ascending order of its keys.    *)
(***************************************************************************)
\* the port configurations built when the keys are visited in ascending order
RECURSIVE BuiltInOrder(_)
BuiltInOrder(keys) ==
    IF keys = <<>> THEN <<>>
    ELSE LET port_num == port_indices[Head(keys)]
         IN  (IF is_physical_port(GetOr(port_types, port_num, 0))
              THEN <<BuiltConfig(port_num)>> ELSE <<>>)
             \o BuiltInOrder(Tail(keys))

ReferenceBuilt == BuiltInOrder(Ascending(DOMAIN port_indices))

\* the first n overrides applied in their order (each stage is computed
\* once, as the one element of a set, before the next stage reads it)
RECURSIVE OverriddenUpTo(_, _)
OverriddenUpTo(configs, n) ==
    IF n = 0 THEN configs
    ELSE CHOOSE r \in {ApplyTargets(prev, lacp_overrides[n], 1) :
                          prev \in {OverriddenUpTo(configs, n - 1)}} : TRUE

ReferenceOverridden ==
    CHOOSE r \in {OverriddenUpTo(built, Len(lacp_overrides)) :
                     built \in {ReferenceBuilt}} : TRUE

ReferenceOverlaid ==
    CHOOSE r \in {[j \in 1..Len(c) |-> Overlaid(c[j])] :
                     c \in {ReferenceOverridden}} : TRUE

ReferenceSorted ==
    CHOOSE r \in {SortByPortNum(c) : c \in {ReferenceOverlaid}} : TRUE

\* the positions of a sorted list at which a range starts
RangeStarts(configs) ==
    {j \in 1..Len(configs) :
        \/ j = 1
        \/ ~configs_match(configs[j - 1], configs[j])
        \/ configs[j].port_num # configs[j - 1].port_num + 1}

\* the ranges of a sorted list: one per start, up to the position before the
\* next start
RangesOf(configs) ==
    LET starts == Ascending(RangeStarts(configs))
        last(i) == IF i = Len(starts) THEN Len(configs) ELSE starts[i + 1] - 1
    IN  [i \in 1..Len(starts) |->
            [first_port       |-> configs[starts[i]].port_num,
             last_port        |-> configs[last(i)].port_num,
             alias            |-> configs[starts[i]].alias,
             pvid             |-> configs[starts[i]].pvid,
             vlan_memberships |-> configs[starts[i]].vlan_memberships,
             untagged_vlans   |-> configs[starts[i]].untagged_vlans,
             lacp_info        |-> configs[starts[i]].lacp_info]]

\* the two lists hold the same elements the same number of times
SameBag(a, b) ==
    /\ Len(a) = Len(b)
    /\ \A x \in Range(a) \cup Range(b) :
          Cardinality({j \in 1..Len(a) : a[j] = x})
             = Cardinality({j \in 1..Len(b) : b[j] = x})

\* C12: whatever order the ifIndex map hands out its values in, the port
\* configurations built, those left by the overrides and those left by the
\* overlay are, as collections, the ones of the reference order; the sorted
\* list is the reference sorted list, element by element; and the emitted
\* range list is the range list of that sorted list.
C12_Deterministic ==
    /\ pc = "override" /\ next_override = 1 =>
          \A ref \in {ReferenceBuilt} : SameBag(port_configs, ref)
    /\ pc = "overlay" =>
          \A ref \in {ReferenceOverridden} : SameBag(port_configs, ref)
    /\ pc = "sort" =>
          \A ref \in {ReferenceOverlaid} : SameBag(port_configs, ref)
    /\ pc \in {"compress", "render", "done"} => port_configs = ReferenceSorted
    /\ AfterCompression => port_ranges = RangesOf(port_configs)

\* overrides were applied to a list that the map handed out in an order
\* other than the reference order, with more than one port in it
C12_Witness ==
    /\ pc = "sort"
    /\ lacp_overrides # <<>>
    /\ Len(port_configs) >= 2
    /\ port_configs # ReferenceOverlaid
    /\ port_configs # SortByPortNum(port_configs)

(***************************************************************************)
(* get_table_values applied on its own: the walk of one table, request by  *)
(* request, over an agent that holds at most MaxEntries entries.  An OID   *)
(* is a sequence of numbers; the root of the table is base_oid.            *)
(***************************************************************************)
MaxEntries == 4

base_oid == <<1, 2>>

\* the OIDs the agent may hold, in lexicographic order: one before the
\* table, four in it (one with a last component above 65535), one after it
OidPool ==
    << <<1, 1, 9>>, <<1, 2, 1>>, <<1, 2, 2>>, <<1, 2, 3>>, <<1, 2, 65537>>,
       <<1, 3, 1>> >>

\* the values an entry may have: an integer, a byte string, a Counter32
ValuePool == {Integer(7), OctetString(<<65>>), Counter(3)}

\* the entries at the chosen positions of the pool, in the pool's order
RECURSIVE EntriesAt(_, _)
EntriesAt(positions, valueAt) ==
    IF positions = {} THEN <<>>
    ELSE LET i == CHOOSE x \in positions : \A y \in positions : x <= y
         IN  <<[oid |-> OidPool[i], val |-> valueAt[i]]>>
             \o EntriesAt(positions \ {i}, valueAt)

Mibs ==
    {EntriesAt(positions, valueAt) :
        positions \in {P \in SUBSET (1..Len(OidPool)) : Cardinality(P) <= MaxEntries},
        valueAt \in [1..Len(OidPool) -> ValuePool]}

\* lexicographic order of OIDs
RECURSIVE OidLess(_, _)
OidLess(a, b) ==
    IF b = <<>> THEN FALSE
    ELSE IF a = <<>> THEN TRUE
    ELSE IF Head(a) # Head(b) THEN Head(a) < Head(b)
    ELSE OidLess(Tail(a), Tail(b))

\* session.getnext(oid): the position of the first entry after oid, 0 when
\* the response has no varbind
getnext(oid) ==
    LET later == {i \in 1..Len(mib) : OidLess(oid, mib[i].oid)}
    IN  IF later = {} THEN 0 ELSE CHOOSE i \in later : \A h \in later : i <= h

starts_with(oid, prefix) ==
    IF Len(oid) < Len(prefix) THEN FALSE
    ELSE SubSeq(oid, 1, Len(prefix)) = prefix

InitWalk ==
    /\ pc = "walk"
    /\ override_lacp = <<>> /\ ignore_alias = FALSE
    /\ PipelineStart
    /\ dec_ports = <<>> /\ dec_out = None /\ dec_queries = None
    /\ mib \in Mibs
    /\ current_oid = base_oid
    /\ walk_results = EmptyMap
    /\ walk_out = None

\* one iteration of the loop of get_table_values
WalkStep ==
    /\ pc = "walk"
    /\ walk_out = None
    /\ LET i == getnext(current_oid)
       IN  IF i = 0 \/ ~starts_with(mib[i].oid, base_oid)
           THEN /\ walk_out' = Some(Ok(walk_results))
                /\ UNCHANGED <<current_oid, walk_results>>
           ELSE /\ current_oid' = mib[i].oid
                /\ walk_results' = WalkRows(<<Row(mib[i].oid[Len(mib[i].oid)], mib[i].val)>>,
                                       walk_results)
                /\ UNCHANGED walk_out
    /\ UNCHANGED <<pc, argVars, parseVars, tableVars, fetchVars, aggVars,
                   compVars, stdout, dec_ports, dec_out, dec_queries, mib>>

\* session.getnext(..)? fails: get_table_values returns the error
WalkFail ==
    /\ pc = "walk"
    /\ walk_out = None
    /\ walk_out' = Some(Err("Failed to get next SNMP value"))
    /\ UNCHANGED <<pc, argVars, parseVars, tableVars, fetchVars, aggVars,
                   compVars, stdout, dec_ports, dec_out, dec_queries, mib,
                   current_oid, walk_results>>

NextWalk == WalkStep \/ WalkFail

SpecWalk == InitWalk /\ [][NextWalk]_vars

\* the positions of the agent's entries whose OID extends the root
UnderRoot ==
    {i \in 1..Len(mib) :
        starts_with(mib[i].oid, base_oid) /\ Len(mib[i].oid) > Len(base_oid)}

\* the index of an entry of the table: the OID after the root
IndexOf(i) == mib[i].oid[Len(mib[i].oid)]

\* the walk returned the entries of UnderRoot, one per index, and no other
ReturnsEveryEntry ==
    walk_out # None /\ Unwrap(walk_out).ok =>
        LET table == Unwrap(walk_out).value
        IN  /\ DOMAIN table = {IndexOf(i) : i \in UnderRoot}
            /\ \A i \in UnderRoot :
                  /\ mib[i].val.kind = "OctetString"
                        => table[IndexOf(i)] = Bytes(mib[i].val.bytes)
                  /\ mib[i].val.kind = "Integer"
                        => table[IndexOf(i)] = IntegerValue(mib[i].val.n)

\* C13: a walk that returns has one entry for every entry the agent holds
\* under the root, under that entry's index and with its value, and nothing
\* else; also for an index whose last component is 65536 or more and for an
\* entry whose value is neither a byte string nor an integer.
C13_WalkReturnsEveryEntry == ReturnsEveryEntry

\* C13 for the agents whose entries under the root have a last component
\* below 65536 and a byte string or an integer as value
C13_WalkOnPlainEntries ==
    (\A i \in UnderRoot :
        IndexOf(i) < 65536 /\ mib[i].val.kind \in {"OctetString", "Integer"})
    => ReturnsEveryEntry

=============================================================================
